---- MODULE Spec2Model ----
(***************************************************************************)
(* Execution orchestration and response demultiplexing of the PythonLab    *)
(* component (frontend/src/components/PythonLab.tsx) and of the runCode    *)
(* client (services/api).                                                  *)
(*                                                                         *)
(* Text is modelled as a sequence of tokens.  A token is an atomic piece   *)
(* of text: an ordinary character, a whitespace character or one of the    *)
(* literal marker strings the regular expressions of the component look    *)
(* for.  No token is a concatenation of other tokens, so equality of       *)
(* token sequences is equality of the texts they stand for.                *)
(***************************************************************************)
EXTENDS Integers, Sequences, FiniteSets, TLC

(***************************************************************************)
(* Bounds of the model.                                                    *)
(***************************************************************************)
MaxStdoutLen == 5
MaxCells == 3
MaxCellReqs == 2
MaxBatches == 2
MaxFiles == 2
MaxEvents == 3

(***************************************************************************)
(* Tokens.                                                                 *)
(***************************************************************************)
NL == "\n"
SP == " "
INPUT_CALL == "input("
GRAPH_0 == "__GRAPH_0__"
GRAPH_2 == "__GRAPH_2__"
GRAPH_END == "__GRAPH_END__"
GRAPHS_START == "__GRAPHS_START__"
GRAPHS_END == "__GRAPHS_END__"

\* /\s/ : the whitespace tokens
IsSpace(t) == t \in {NL, SP}
\* /__GRAPH_\d+__/ : a begin marker with its ordinal
IsGraphBegin(t) == t \in {GRAPH_0, GRAPH_2}

SeqsUpTo(S, n) == UNION {[1..k -> S] : k \in 0..n}

Drop(s, n) == SubSeq(s, n + 1, Len(s))
Take(s, n) == SubSeq(s, 1, n)

\* String.prototype.trim
RECURSIVE TrimLeft(_)
TrimLeft(s) == IF s # <<>> /\ IsSpace(Head(s)) THEN TrimLeft(Tail(s)) ELSE s
RECURSIVE TrimRight(_)
TrimRight(s) ==
    IF s # <<>> /\ IsSpace(s[Len(s)]) THEN TrimRight(Take(s, Len(s) - 1)) ELSE s
Trim(s) == TrimRight(TrimLeft(s))

\* String.prototype.includes for a one-token needle
Includes(s, t) == \E i \in 1..Len(s) : s[i] = t

(***************************************************************************)
(* Input Requirement Detector: code.match(/input\(/g) and its length.      *)
(***************************************************************************)
RECURSIVE CountInput(_)
CountInput(code) ==
    IF code = <<>> THEN 0
    ELSE (IF Head(code) = INPUT_CALL THEN 1 ELSE 0) + CountInput(Tail(code))

(***************************************************************************)
(* Response Demultiplexer, as handleRun computes it on a successful        *)
(* result.                                                                 *)
(***************************************************************************)
\* the least j >= k with s[j] = t, or 0 when there is none
RECURSIVE FirstIdx(_, _, _)
FirstIdx(s, t, k) ==
    IF k > Len(s) THEN 0
    ELSE IF s[k] = t THEN k
    ELSE FirstIdx(s, t, k + 1)

\* s.match(/__GRAPH_(\d+)__(.+?)__GRAPH_END__/gs) scanning from position i:
\* the matched substrings, leftmost first, non-overlapping; the payload is
\* lazy, at least one character long and (flag s) may hold newlines.
RECURSIVE GraphMatchesFrom(_, _)
GraphMatchesFrom(s, i) ==
    IF i > Len(s) THEN <<>>
    ELSE IF IsGraphBegin(s[i]) /\ FirstIdx(s, GRAPH_END, i + 2) # 0
         THEN <<SubSeq(s, i, FirstIdx(s, GRAPH_END, i + 2))>>
                  \o GraphMatchesFrom(s, FirstIdx(s, GRAPH_END, i + 2) + 1)
         ELSE GraphMatchesFrom(s, i + 1)

GraphMatches(s) == GraphMatchesFrom(s, 1)

\* m.match(/__GRAPH_\d+__(.+?)__GRAPH_END__/) from position p: group 1 of
\* the leftmost match as a one-element sequence, <<>> for null.  Without
\* flag s the payload holds no newline.
RECURSIVE Base64MatchFrom(_, _)
Base64MatchFrom(m, p) ==
    IF p > Len(m) THEN <<>>
    ELSE LET k == FirstIdx(m, GRAPH_END, p + 2)
         IN  IF /\ IsGraphBegin(m[p])
                /\ k # 0
                /\ \A q \in (p + 1)..(k - 1) : m[q] # NL
             THEN <<SubSeq(m, p + 1, k - 1)>>
             ELSE Base64MatchFrom(m, p + 1)

Base64Match(m) == Base64MatchFrom(m, 1)

\* graphMatches.forEach(match => { ... extractedGraphs.push(base64Match[1]) })
RECURSIVE ExtractGraphs(_)
ExtractGraphs(matches) ==
    IF matches = <<>> THEN <<>>
    ELSE Base64Match(Head(matches)) \o ExtractGraphs(Tail(matches))

\* s.replace(/__GRAPHS_START__[\s\S]*?__GRAPHS_END__/g, '') from position i
RECURSIVE RemoveGraphData(_, _)
RemoveGraphData(s, i) ==
    IF i > Len(s) THEN <<>>
    ELSE IF s[i] = GRAPHS_START /\ FirstIdx(s, GRAPHS_END, i + 1) # 0
         THEN RemoveGraphData(s, FirstIdx(s, GRAPHS_END, i + 1) + 1)
         ELSE <<s[i]>> \o RemoveGraphData(s, i + 1)

SUCCESS_NO_OUTPUT == <<"Success (no output)">>

\* let formattedOutput = result.stdout || 'Success (no output)'
FormattedOutput(stdout) == IF stdout = <<>> THEN SUCCESS_NO_OUTPUT ELSE stdout

\* the output trimmed whether or not a graph was found
DemuxOutput_TrimAlways(stdout) ==
    Trim(RemoveGraphData(FormattedOutput(stdout), 1))

\* the text handleRun hands to setOutput on success
DemuxOutput(stdout) ==
    IF GraphMatches(FormattedOutput(stdout)) # <<>>
    THEN Trim(RemoveGraphData(FormattedOutput(stdout), 1))
    ELSE FormattedOutput(stdout)

\* the list handleRun hands to setGraphs on success
DemuxGraphs(stdout) ==
    IF GraphMatches(FormattedOutput(stdout)) # <<>>
    THEN ExtractGraphs(GraphMatches(FormattedOutput(stdout)))
    ELSE <<>>

(***************************************************************************)
(* Values the environment supplies: source texts, typed input, answers to  *)
(* window.prompt, and what the remote service or the transport returns.    *)
(***************************************************************************)
\* source texts with 0, 1 and 2 input-call sites
PRINT_SRC == <<"print(">>
COMMENT_SRC == <<"#">>
Sources == {PRINT_SRC, <<INPUT_CALL>>, <<INPUT_CALL, "print(", INPUT_CALL>>}

\* what the user may type into the input textarea
InputTexts == {<<>>, <<SP>>, <<"5">>}

\* window.prompt returns null on cancel, else the text typed
PROMPT_NULL == <<"null">>
PromptAnswers == {PROMPT_NULL, <<>>, <<"5">>}

StdoutAlphabet ==
    {"A", NL, GRAPH_0, GRAPH_2, GRAPH_END, GRAPHS_START, GRAPHS_END}
AllStdout == SeqsUpTo(StdoutAlphabet, MaxStdoutLen)

\* stdout whose text lies in a __GRAPHS_START__ ... __GRAPHS_END__ envelope
EnvelopedStdout == {<<GRAPHS_START>> \o s \o <<GRAPHS_END>> : s \in AllStdout}

StdoutSamples ==
    { <<>>,
      <<"A">>,
      <<"A", GRAPH_0, "A", GRAPH_END>>,
      <<GRAPHS_START, GRAPH_0, "A", GRAPH_END, GRAPH_2, "A", GRAPH_END,
        GRAPHS_END, NL, "A">> }
StderrSamples == {<<"Traceback">>}

\* the rejection of the axios promise: error.code, error.message and
\* error.response.data.detail ('' standing for an absent field)
NoErr == [code |-> "", message |-> <<>>, detail |-> <<>>]
TimeoutErr ==
    [code |-> "ECONNABORTED", message |-> <<"timeout", " of 125000ms exceeded">>,
     detail |-> <<>>]
NetworkErr ==
    [code |-> "ERR_NETWORK", message |-> <<"Network Error">>, detail |-> <<>>]
HttpErr ==
    [code |-> "ERR_BAD_RESPONSE",
     message |-> <<"Request failed with status code 500">>,
     detail |-> <<"Internal error">>]
ErrorSamples == {TimeoutErr, NetworkErr, HttpErr}

\* how a request ends: a CodeExecutionResponse or a rejection
NoOutcome ==
    [kind |-> "none", success |-> FALSE, stdout |-> <<>>, stderr |-> <<>>,
     err |-> NoErr]
Response(success, stdout, stderr) ==
    [kind |-> "response", success |-> success, stdout |-> stdout,
     stderr |-> stderr, err |-> NoErr]
Rejection(err) ==
    [kind |-> "throw", success |-> FALSE, stdout |-> <<>>, stderr |-> <<>>,
     err |-> err]
Outcomes ==
    {Response(TRUE, so, <<>>) : so \in StdoutSamples}
        \cup {Response(FALSE, so, se) : so \in {<<>>, <<"A">>}, se \in StderrSamples}
        \cup {Rejection(e) : e \in ErrorSamples}

\* an aborted request: axios rejects it with the code it also gives a timeout
AbortErr ==
    [code |-> "ECONNABORTED", message |-> <<"Request aborted">>, detail |-> <<>>]

\* failures of the three kinds: a structured failure with the stderr of the
\* remote run, which is any text; a timeout; a failure of the transport
FailureStderr == {<<"Traceback">>, <<"Network Error">>}
TimeoutErrors == {TimeoutErr}
TransportErrors == {NetworkErr, HttpErr, AbortErr}
FailureOutcomes ==
    {Response(FALSE, <<>>, se) : se \in FailureStderr}
        \cup {Rejection(e) : e \in TimeoutErrors \cup TransportErrors}

\* responses with every combination of success, stdout and stderr
PayloadOutcomes ==
    {Response(ok, so, se) :
        ok \in BOOLEAN,
        so \in {<<>>, <<"A">>, <<"A", GRAPH_0, "A", GRAPH_END>>},
        se \in {<<>>, <<"Traceback">>}}

(***************************************************************************)
(* services/api: runCode posts { code, stdin, notebook_id: notebookId }.   *)
(***************************************************************************)
UNDEFINED == "undefined"

\* the request body without the session id
RunCode_NoNotebookId(code, stdin, notebookId) ==
    [code |-> code, stdin |-> stdin, notebook_id |-> UNDEFINED]

RunCode(code, stdin, notebookId) ==
    [code |-> code, stdin |-> stdin, notebook_id |-> notebookId]

(***************************************************************************)
(* State of the PythonLab component, the requests in flight with the       *)
(* closures that await them, and the last handler that ran.                *)
(***************************************************************************)
VARIABLES
    mode,               \* 'editor' | 'notebook'
    output,             \* text of the terminal panel
    isExecuting,        \* editor in-flight flag
    userInput,          \* text collected in the input textarea
    waitingForInput,    \* editor waits for input
    notebookCells,      \* sequence of NotebookCell
    notebookId,         \* session id of the notebook
    files,              \* sequence of file contents
    activeFileIndex,    \* 1-based index of the active file
    graphs,             \* artifact list
    currentGraphIndex,  \* 0-based index of the artifact shown
    editorReqs,         \* requests of handleRun in flight
    cellReqs,           \* requests of runNotebookCell in flight
    batches,            \* runAllCells invocations in progress
    events,             \* number of user events the notebook has handled
    lastOp              \* the last handler run on a surface or on the
                        \* file tabs, its argument and outcome

editorVars ==
    <<output, isExecuting, userInput, waitingForInput, files, activeFileIndex,
      graphs, currentGraphIndex, editorReqs>>
notebookVars == <<notebookCells, notebookId, cellReqs, batches, events>>
vars == <<mode, editorVars, notebookVars, lastOp>>

Op(name, id, outcome) == [op |-> name, id |-> id, res |-> outcome]

NotebookIds == {"notebook_1"}

\* a slot of `batches` that holds no runAllCells invocation; `log` lists the
\* calls of runNotebookCell the invocation has made: the cell id and whether
\* the call sent a request
IdleBatch ==
    [active |-> FALSE, snap |-> <<>>, idx |-> 0, phase |-> "idle", log |-> <<>>]

Cell(id, type, content) ==
    [id |-> id, type |-> type, content |-> content, output |-> <<>>,
     isExecuting |-> FALSE]

Init ==
    /\ mode = "editor"
    /\ output = <<>>
    /\ isExecuting = FALSE
    /\ userInput = <<>>
    /\ waitingForInput = FALSE
    /\ notebookCells = <<Cell(1, "markdown", COMMENT_SRC), Cell(2, "code", PRINT_SRC)>>
    /\ notebookId \in NotebookIds
    /\ files = <<PRINT_SRC>>
    /\ activeFileIndex = 1
    /\ graphs = <<>>
    /\ currentGraphIndex = 0
    /\ editorReqs = <<>>
    /\ cellReqs = <<>>
    /\ batches = [b \in 1..MaxBatches |-> IdleBatch]
    /\ events = 0
    /\ lastOp = Op("init", 0, NoOutcome)

(***************************************************************************)
(* Editor surface.                                                         *)
(***************************************************************************)
EXECUTING_MSG == <<"Executing...\n">>
ERROR_PREFIX == <<"Error:\n">>
NumStr(n) == <<"0", "1", "2", "3", "4", "5">>[n + 1]

\* `Your code needs ${inputCount} input${plural}.\nEnter them below ...`
NeedsInputMsg(inputCount) ==
    <<"Your code needs ", NumStr(inputCount), " input">>
        \o (IF inputCount > 1 THEN <<"s">> ELSE <<>>)
        \o <<".\nEnter them below (one per line, or space-separated):\n">>

\* files[activeFileIndex]?.content || ''
CurrentCode ==
    IF activeFileIndex \in 1..Len(files) THEN files[activeFileIndex] ELSE <<>>

\* handleRun without its guard
HandleRunRejects_Never == FALSE

\* handleRun guarded by the wrong flag
HandleRunRejects_WhenWaiting == waitingForInput

\* if (isExecuting) return;
HandleRunRejects == isExecuting

\* the input check without the count of input calls
HandleRunNeedsInput_AnySource == Trim(userInput) = <<>>

\* the input check without trim()
HandleRunNeedsInput_NoTrim == CountInput(CurrentCode) > 0 /\ userInput = <<>>

\* if (inputCount > 0 && !userInput.trim())
HandleRunNeedsInput == CountInput(CurrentCode) > 0 /\ Trim(userInput) = <<>>

\* the request without the collected input
HandleRunRequest_NoStdin == RunCode(CurrentCode, <<>>, UNDEFINED)

\* const result = await runCode(currentCode, userInput);
HandleRunRequest == RunCode(CurrentCode, userInput, UNDEFINED)

\* handleRun without the clearing of the previous graphs
HandleRunClearsGraphs_Keep == UNCHANGED <<graphs, currentGraphIndex>>

\* handleRun clearing the list without setCurrentGraphIndex(0)
HandleRunClearsGraphs_ListOnly == graphs' = <<>> /\ UNCHANGED currentGraphIndex

\* setGraphs([]); setCurrentGraphIndex(0);
HandleRunClearsGraphs ==
    /\ graphs' = <<>>
    /\ currentGraphIndex' = 0

\* handleRun up to its await
HandleRunStart ==
    /\ mode = "editor"
    /\ lastOp' = Op("handleRun", 0, NoOutcome)
    /\ IF HandleRunRejects
       THEN UNCHANGED <<editorVars>>
       ELSE /\ HandleRunClearsGraphs
            /\ IF HandleRunNeedsInput
               THEN /\ waitingForInput' = TRUE
                    /\ output' = NeedsInputMsg(CountInput(CurrentCode))
                    /\ UNCHANGED <<isExecuting, editorReqs>>
               ELSE /\ isExecuting' = TRUE
                    /\ waitingForInput' = FALSE
                    /\ output' = EXECUTING_MSG
                    /\ editorReqs' = Append(editorReqs, HandleRunRequest)
            /\ UNCHANGED <<userInput, files, activeFileIndex>>
    /\ UNCHANGED <<mode, notebookCells, notebookId, cellReqs, batches>>

\* the Run button, the Submit & Run button, Ctrl+Enter
HandleRun == HandleRunStart /\ UNCHANGED events

TIMEOUT_MSG ==
    <<"Execution timeout: Code took longer than ", "125", " seconds.\nPlease optimize your code or reduce the workload.">>

\* the catch block of handleRun: the message shown for a rejection
EditorErrorMsg(err) ==
    IF err.code = "ECONNABORTED" \/ Includes(err.message, "timeout")
    THEN TIMEOUT_MSG
    ELSE IF err.detail # <<>> THEN err.detail
    ELSE IF err.message # <<>> THEN err.message
    ELSE <<"Unknown error occurred">>

\* a failure shown with the stdout before the stderr
EditorResultOutput_Both(o) ==
    IF o.kind = "throw" THEN ERROR_PREFIX \o EditorErrorMsg(o.err)
    ELSE IF o.success THEN DemuxOutput(o.stdout)
    ELSE ERROR_PREFIX \o o.stdout \o o.stderr

\* the text handleRun shows once its request has ended with `o`
EditorResultOutput(o) ==
    IF o.kind = "throw" THEN ERROR_PREFIX \o EditorErrorMsg(o.err)
    ELSE IF o.success THEN DemuxOutput(o.stdout)
    ELSE ERROR_PREFIX \o o.stderr

\* the artifact list once the request has ended with `o`
EditorResultGraphs(o) ==
    IF o.kind = "throw" THEN <<>>
    ELSE IF o.success THEN DemuxGraphs(o.stdout)
    ELSE graphs

\* the flags cleared at the end of the try block instead of in finally
HandleRunFinally_NotOnThrow ==
    IF lastOp'.res.kind = "throw"
    THEN UNCHANGED <<isExecuting, waitingForInput>>
    ELSE isExecuting' = FALSE /\ waitingForInput' = FALSE

\* finally { setIsExecuting(false); setWaitingForInput(false); }
HandleRunFinally ==
    /\ isExecuting' = FALSE
    /\ waitingForInput' = FALSE

\* handleRun from its await on: request i ends with outcome o
HandleRunResume(i, o) ==
    /\ i \in 1..Len(editorReqs)
    /\ lastOp' = Op("handleRunDone", 0, o)
    /\ editorReqs' = Take(editorReqs, i - 1) \o Drop(editorReqs, i)
    /\ output' = EditorResultOutput(o)
    /\ graphs' = EditorResultGraphs(o)
    /\ currentGraphIndex' =
           IF o.kind = "response" /\ o.success /\ GraphMatches(FormattedOutput(o.stdout)) # <<>>
           THEN 0 ELSE currentGraphIndex
    /\ userInput' = IF o.kind = "response" THEN <<>> ELSE userInput
    /\ HandleRunFinally
    /\ UNCHANGED <<mode, files, activeFileIndex, notebookVars>>

EditorResolve == \E i \in 1..Len(editorReqs), o \in Outcomes : HandleRunResume(i, o)

\* the same step with the stdout of a successful result drawn from every
\* text up to MaxStdoutLen tokens
EditorResolveAnyStdout ==
    \E i \in 1..Len(editorReqs), so \in AllStdout :
        HandleRunResume(i, Response(TRUE, so, <<>>))

\* the same step for a request that fails
EditorResolveFailure ==
    \E i \in 1..Len(editorReqs), o \in FailureOutcomes : HandleRunResume(i, o)

\* the same step for a response with any combination of its fields
EditorResolvePayload ==
    \E i \in 1..Len(editorReqs), o \in PayloadOutcomes : HandleRunResume(i, o)

\* the same step with the stdout of a successful result inside an envelope
EditorResolveEnveloped ==
    \E i \in 1..Len(editorReqs), so \in EnvelopedStdout :
        HandleRunResume(i, Response(TRUE, so, <<>>))

ClearOutput ==
    /\ mode = "editor"
    /\ output' = <<>>
    /\ waitingForInput' = FALSE
    /\ userInput' = <<>>
    /\ lastOp' = Op("clearOutput", 0, NoOutcome)
    /\ UNCHANGED <<mode, isExecuting, files, activeFileIndex, graphs,
                   currentGraphIndex, editorReqs, notebookVars>>

\* onChange of the input textarea, rendered while waitingForInput
SetUserInput ==
    /\ mode = "editor"
    /\ waitingForInput
    /\ \E t \in InputTexts \ {userInput} : userInput' = t
    /\ lastOp' = Op("setUserInput", 0, NoOutcome)
    /\ UNCHANGED <<mode, output, isExecuting, waitingForInput, files,
                   activeFileIndex, graphs, currentGraphIndex, editorReqs,
                   notebookVars>>

Max(a, b) == IF a > b THEN a ELSE b
Min(a, b) == IF a < b THEN a ELSE b

\* the previous and next buttons of the graph display
PrevGraph ==
    /\ mode = "editor"
    /\ Len(graphs) > 1
    /\ currentGraphIndex # 0
    /\ currentGraphIndex' = Max(0, currentGraphIndex - 1)
    /\ lastOp' = Op("prevGraph", 0, NoOutcome)
    /\ UNCHANGED <<mode, output, isExecuting, userInput, waitingForInput, files,
                   activeFileIndex, graphs, editorReqs, notebookVars>>

NextGraph ==
    /\ mode = "editor"
    /\ Len(graphs) > 1
    /\ currentGraphIndex # Len(graphs) - 1
    /\ currentGraphIndex' = Min(Len(graphs) - 1, currentGraphIndex + 1)
    /\ lastOp' = Op("nextGraph", 0, NoOutcome)
    /\ UNCHANGED <<mode, output, isExecuting, userInput, waitingForInput, files,
                   activeFileIndex, graphs, editorReqs, notebookVars>>

\* the mode buttons
SetMode ==
    /\ mode' = IF mode = "editor" THEN "notebook" ELSE "editor"
    /\ UNCHANGED <<editorVars, notebookVars, lastOp>>

(***************************************************************************)
(* File tabs.                                                              *)
(***************************************************************************)
\* createNewFile with a name no file has yet
CreateNewFile ==
    /\ Len(files) < MaxFiles
    /\ files' = Append(files, COMMENT_SRC)
    /\ activeFileIndex' = Len(files) + 1
    /\ output' = <<>>
    /\ lastOp' = Op("createNewFile", 0, NoOutcome)
    /\ UNCHANGED <<mode, isExecuting, userInput, waitingForInput, graphs,
                   currentGraphIndex, editorReqs, notebookVars>>

\* switchFile, also createNewFile with the name of an existing file
SwitchFile ==
    /\ \E index \in 1..Len(files) : activeFileIndex' = index
    /\ output' = <<>>
    /\ lastOp' = Op("switchFile", 0, NoOutcome)
    /\ UNCHANGED <<mode, isExecuting, userInput, waitingForInput, files, graphs,
                   currentGraphIndex, editorReqs, notebookVars>>

CloseFile ==
    /\ Len(files) # 1
    /\ \E index \in 1..Len(files) :
        /\ files' = Take(files, index - 1) \o Drop(files, index)
        /\ activeFileIndex' =
               IF activeFileIndex >= index /\ activeFileIndex > 1
               THEN activeFileIndex - 1
               ELSE IF activeFileIndex = index /\ index = Len(files)
               THEN index - 1
               ELSE activeFileIndex
    /\ lastOp' = Op("closeFile", 0, NoOutcome)
    /\ UNCHANGED <<mode, output, isExecuting, userInput, waitingForInput, graphs,
                   currentGraphIndex, editorReqs, notebookVars>>

\* onChange of the code editor
UpdateCurrentFileContent ==
    /\ mode = "editor"
    /\ activeFileIndex \in 1..Len(files)
    /\ \E newContent \in Sources \ {files[activeFileIndex]} :
        files' = [files EXCEPT ![activeFileIndex] = newContent]
    /\ lastOp' = Op("updateCurrentFileContent", 0, NoOutcome)
    /\ UNCHANGED <<mode, output, isExecuting, userInput, waitingForInput,
                   activeFileIndex, graphs, currentGraphIndex, editorReqs,
                   notebookVars>>

(***************************************************************************)
(* Notebook surface.  A handler started by a user event reads the state    *)
(* of the latest render; after an await it goes on with the values its     *)
(* closure captured when it was called (`snap` for notebookCells).         *)
(***************************************************************************)
MARKDOWN_SRC == <<"##">>
CellSources == {PRINT_SRC, <<INPUT_CALL>>}

RUNNING_MSG == <<"Running...">>
CANCELLED_MSG == <<"Execution cancelled - input required">>
CELL_ERROR_PREFIX == <<"ERROR:\n">>

\* cells.findIndex(c => c.id === id), 1-based, 0 when there is none
RECURSIVE FindFrom(_, _, _)
FindFrom(cells, id, k) ==
    IF k > Len(cells) THEN 0
    ELSE IF cells[k].id = id THEN k
    ELSE FindFrom(cells, id, k + 1)
FindCell(cells, id) == FindFrom(cells, id, 1)

\* cells.map(c => c.id === id ? { ...c, output } : c)
SetCellOutput(cells, id, out) ==
    [k \in 1..Len(cells) |->
        IF cells[k].id = id THEN [cells[k] EXCEPT !.output = out] ELSE cells[k]]

\* cells.map(c => c.id === id ? { ...c, isExecuting, output } : c)
SetCellRun(cells, id, exec, out) ==
    [k \in 1..Len(cells) |->
        IF cells[k].id = id
        THEN [cells[k] EXCEPT !.isExecuting = exec, !.output = out]
        ELSE cells[k]]

\* one more user event on the notebook, of at most MaxEvents
UserEvent ==
    /\ events < MaxEvents
    /\ events' = events + 1

\* ids held by the cells on screen or by a closure still alive
UsedIds ==
    {notebookCells[k].id : k \in 1..Len(notebookCells)}
        \cup UNION {{cellReqs[i].snap[k].id : k \in 1..Len(cellReqs[i].snap)} :
                        i \in 1..Len(cellReqs)}
        \cup UNION {{batches[b].snap[k].id : k \in 1..Len(batches[b].snap)} :
                        b \in 1..MaxBatches}

\* String(Date.now()): an id no cell has
FreshId ==
    CHOOSE n \in 1..(Cardinality(UsedIds) + 1) :
        /\ n \notin UsedIds
        /\ \A m \in 1..(n - 1) : m \in UsedIds

AddNotebookCell ==
    /\ mode = "notebook"
    /\ UserEvent
    /\ Len(notebookCells) < MaxCells
    /\ \E type \in {"code", "markdown"}, index \in 1..Len(notebookCells) :
        LET newCell ==
                Cell(FreshId, type,
                     IF type = "code" THEN COMMENT_SRC ELSE MARKDOWN_SRC)
        IN  \* afterId given: splice(index + 1, 0, newCell); absent: append
            notebookCells' =
                Take(notebookCells, index) \o <<newCell>> \o Drop(notebookCells, index)
    /\ lastOp' = Op("addNotebookCell", FreshId, NoOutcome)
    /\ UNCHANGED <<mode, editorVars, notebookId, cellReqs, batches>>

UpdateNotebookCell ==
    /\ mode = "notebook"
    /\ UserEvent
    /\ \E k \in 1..Len(notebookCells) :
        /\ notebookCells[k].type = "code"
        /\ \E content \in CellSources \ {notebookCells[k].content} :
            notebookCells' =
                [j \in 1..Len(notebookCells) |->
                    IF notebookCells[j].id = notebookCells[k].id
                    THEN [notebookCells[j] EXCEPT !.content = content]
                    ELSE notebookCells[j]]
        /\ lastOp' = Op("updateNotebookCell", notebookCells[k].id, NoOutcome)
    /\ UNCHANGED <<mode, editorVars, notebookId, cellReqs, batches>>

\* cells.filter(c => c.id !== id)
RECURSIVE FilterOut(_, _)
FilterOut(cells, id) ==
    IF cells = <<>> THEN <<>>
    ELSE (IF Head(cells).id # id THEN <<Head(cells)>> ELSE <<>>)
             \o FilterOut(Tail(cells), id)

DeleteNotebookCell ==
    /\ mode = "notebook"
    /\ UserEvent
    /\ Len(notebookCells) # 1
    /\ \E k \in 1..Len(notebookCells) :
        /\ notebookCells' = FilterOut(notebookCells, notebookCells[k].id)
        /\ lastOp' = Op("deleteNotebookCell", notebookCells[k].id, NoOutcome)
    /\ UNCHANGED <<mode, editorVars, notebookId, cellReqs, batches>>

\* runNotebookCell sends a request: the cell is a code cell of `cells` and
\* the prompt, if one is shown, is not cancelled (inputPrompt === null)
CellDispatches(cells, id, answer) ==
    /\ FindCell(cells, id) # 0
    /\ cells[FindCell(cells, id)].type # "markdown"
    /\ (CountInput(cells[FindCell(cells, id)].content) > 0 => answer # PROMPT_NULL)

\* what window.prompt may return in runNotebookCell(id); it is called only
\* for a code cell whose source holds an input call
PromptReturns(cells, id) ==
    IF /\ FindCell(cells, id) # 0
       /\ cells[FindCell(cells, id)].type # "markdown"
       /\ CountInput(cells[FindCell(cells, id)].content) > 0
    THEN PromptAnswers
    ELSE {PROMPT_NULL}

\* runCode(cell.content, inputPrompt, notebookId) or
\* runCode(cell.content, '', notebookId)
CellRequest(cell, answer) ==
    RunCode(cell.content,
            IF CountInput(cell.content) > 0 THEN answer ELSE <<>>,
            notebookId)

\* runNotebookCell(id) up to its await, in a closure whose notebookCells is
\* `cells`; `answer` is what window.prompt returns if it is called; `b` is
\* the runAllCells invocation that awaits it, 0 for a click on the cell
RunNotebookCellStart(cells, id, answer, b) ==
    IF FindCell(cells, id) = 0 \/ cells[FindCell(cells, id)].type = "markdown"
    THEN UNCHANGED <<notebookCells, cellReqs>>
    ELSE IF ~CellDispatches(cells, id, answer)
    THEN /\ notebookCells' = SetCellOutput(cells, id, CANCELLED_MSG)
         /\ UNCHANGED cellReqs
    ELSE /\ notebookCells' = SetCellRun(cells, id, TRUE, RUNNING_MSG)
         /\ cellReqs' =
                Append(cellReqs,
                       [id |-> id, snap |-> cells, batch |-> b,
                        req |-> CellRequest(cells[FindCell(cells, id)], answer)])

\* a Run button that any request in flight disables
CellRunDisabled_Global(k) ==
    notebookCells[k].isExecuting \/ isExecuting \/ cellReqs # <<>>

\* disabled={cell.isExecuting}
CellRunDisabled(k) == notebookCells[k].isExecuting

\* the Run button of a code cell, disabled while cell.isExecuting
RunNotebookCell ==
    /\ mode = "notebook"
    /\ UserEvent
    /\ \E k \in 1..Len(notebookCells) :
       \E answer \in PromptReturns(notebookCells, notebookCells[k].id) :
        /\ notebookCells[k].type = "code"
        /\ ~CellRunDisabled(k)
        /\ CellDispatches(notebookCells, notebookCells[k].id, answer)
               => Len(cellReqs) < MaxCellReqs
        /\ RunNotebookCellStart(notebookCells, notebookCells[k].id, answer, 0)
        /\ lastOp' = Op("runNotebookCell", notebookCells[k].id, NoOutcome)
    /\ UNCHANGED <<mode, editorVars, notebookId, batches>>

CELL_TIMEOUT_MSG == <<"Execution timeout - code took too long to execute">>

\* the catch blocks of runNotebookCell: with input, and without
CellErrorMsg(withInput, err) ==
    IF withInput
    THEN IF err.code = "ECONNABORTED" \/ Includes(err.message, "timeout")
         THEN CELL_TIMEOUT_MSG
         ELSE IF err.message # <<>> THEN err.message ELSE <<"Unknown error">>
    ELSE IF err.message # <<>> THEN err.message ELSE <<UNDEFINED>>

\* the output runNotebookCell writes once request r has ended with `o`
CellResultOutput(r, o) ==
    IF o.kind = "throw"
    THEN CELL_ERROR_PREFIX \o CellErrorMsg(CountInput(r.req.code) > 0, o.err)
    ELSE IF o.success THEN o.stdout
    ELSE CELL_ERROR_PREFIX \o o.stderr

\* runAllCells without the try/catch of runNotebookCell around the request:
\* a rejection ends the loop
RunAllResumes_AbortOnThrow(b, o) ==
    IF b = 0 THEN batches' = batches
    ELSE IF o.kind = "throw"
    THEN batches' = [batches EXCEPT ![b] = [IdleBatch EXCEPT !.log = batches[b].log]]
    ELSE batches' = [batches EXCEPT ![b].phase = "delay"]

\* an await that never returns
RunAllResumes_NeverReturns(b, o) == batches' = batches

\* await runNotebookCell(cell.id) returns in invocation b, whatever the
\* outcome o, since runNotebookCell catches every rejection; b = 0 when the
\* call came from the cell's own button
RunAllResumes(b, o) ==
    IF b = 0 THEN batches' = batches
    ELSE batches' = [batches EXCEPT ![b].phase = "delay"]

\* runNotebookCell from its await on: request i ends with outcome o.  The
\* runAllCells invocation awaiting it goes on to its settling delay.
RunNotebookCellResume(i, o) ==
    /\ i \in 1..Len(cellReqs)
    /\ notebookCells' =
           SetCellRun(cellReqs[i].snap, cellReqs[i].id, FALSE,
                      CellResultOutput(cellReqs[i], o))
    /\ cellReqs' = Take(cellReqs, i - 1) \o Drop(cellReqs, i)
    /\ RunAllResumes(cellReqs[i].batch, o)
    /\ lastOp' = Op("runNotebookCellDone", cellReqs[i].id, o)
    /\ UNCHANGED <<mode, editorVars, notebookId, events>>

\* what a request of a cell may end with: success, structured failure,
\* timeout, transport failure
CellOutcomes ==
    {Response(TRUE, <<"A">>, <<>>), Response(FALSE, <<"A">>, <<"Traceback">>),
     Rejection(TimeoutErr), Rejection(NetworkErr)}

CellResolve ==
    \E i \in 1..Len(cellReqs), o \in CellOutcomes : RunNotebookCellResume(i, o)

\* the loop without its test of cell.type
NextCodeCell_AnyCell(cells, from) == IF from > Len(cells) THEN 0 ELSE from

\* the same step for a request that fails
CellResolveFailure ==
    \E i \in 1..Len(cellReqs), o \in FailureOutcomes : RunNotebookCellResume(i, o)

\* the same step for a response with any combination of its fields
CellResolvePayload ==
    \E i \in 1..Len(cellReqs), o \in PayloadOutcomes : RunNotebookCellResume(i, o)

\* the least k >= from with cells[k] a code cell, 0 when there is none
RECURSIVE NextCodeCell(_, _)
NextCodeCell(cells, from) ==
    IF from > Len(cells) THEN 0
    ELSE IF cells[from].type = "code" THEN from
    ELSE NextCodeCell(cells, from + 1)

\* the for loop of runAllCells, invocation b, from position `from` of its
\* closure's notebookCells up to the next await; `log` lists the calls made
\* so far and stays in the slot when the loop has ended
RunAllLoop(b, cells, from, log) ==
    LET k == NextCodeCell(cells, from)
    IN  IF k = 0
        THEN /\ batches' = [batches EXCEPT ![b] = [IdleBatch EXCEPT !.log = log]]
             /\ UNCHANGED <<notebookCells, cellReqs>>
        ELSE \E answer \in PromptReturns(cells, cells[k].id) :
             /\ CellDispatches(cells, cells[k].id, answer)
                    => Len(cellReqs) < MaxCellReqs
             /\ RunNotebookCellStart(cells, cells[k].id, answer, b)
             /\ batches' =
                    [batches EXCEPT ![b] =
                        [active |-> TRUE, snap |-> cells, idx |-> k,
                         phase |-> IF CellDispatches(cells, cells[k].id, answer)
                                   THEN "await" ELSE "delay",
                         log |-> Append(log,
                                    [id |-> cells[k].id,
                                     sent |-> CellDispatches(cells, cells[k].id, answer)])]]

\* the Run All button, disabled while the editor's isExecuting
RunAllCells ==
    /\ mode = "notebook"
    /\ UserEvent
    /\ ~isExecuting
    /\ \E b \in 1..MaxBatches :
        /\ ~batches[b].active
        /\ \A c \in 1..(b - 1) : batches[c].active
        /\ RunAllLoop(b, notebookCells, 1, <<>>)
        /\ lastOp' = Op("runAllCells", b, NoOutcome)
    /\ UNCHANGED <<mode, editorVars, notebookId>>

\* await new Promise(resolve => setTimeout(resolve, 300)) is over
RunAllNext ==
    /\ \E b \in 1..MaxBatches :
        /\ batches[b].active
        /\ batches[b].phase = "delay"
        /\ RunAllLoop(b, batches[b].snap, batches[b].idx + 1, batches[b].log)
        /\ lastOp' = Op("runAllNext", b, NoOutcome)
    /\ UNCHANGED <<mode, editorVars, notebookId, events>>

Next ==
    \/ HandleRun
    \/ EditorResolve
    \/ ClearOutput
    \/ SetUserInput
    \/ PrevGraph
    \/ NextGraph
    \/ SetMode
    \/ CreateNewFile
    \/ SwitchFile
    \/ CloseFile
    \/ UpdateCurrentFileContent
    \/ AddNotebookCell
    \/ UpdateNotebookCell
    \/ DeleteNotebookCell
    \/ RunNotebookCell
    \/ CellResolve
    \/ RunAllCells
    \/ RunAllNext

Spec == Init /\ [][Next]_vars

\* the editor surface with its file tabs
EditorNext ==
    \/ HandleRun
    \/ EditorResolve
    \/ ClearOutput
    \/ SetUserInput
    \/ PrevGraph
    \/ NextGraph
    \/ SetMode
    \/ CreateNewFile
    \/ SwitchFile
    \/ CloseFile
    \/ UpdateCurrentFileContent

SpecEditor == Init /\ [][EditorNext]_vars

\* the notebook surface
NotebookNext ==
    \/ SetMode
    \/ AddNotebookCell
    \/ UpdateNotebookCell
    \/ DeleteNotebookCell
    \/ RunNotebookCell
    \/ CellResolve
    \/ RunAllCells
    \/ RunAllNext

SpecNotebook == Init /\ [][NotebookNext]_vars

\* the notebook surface where every request ends (axios rejects after its
\* timeout at the latest) and every setTimeout fires; window.prompt is modal
\* and its answer is part of the step that shows it
SpecNotebookLive ==
    /\ Init
    /\ [][NotebookNext]_vars
    /\ WF_vars(CellResolve)
    /\ WF_vars(RunAllNext)

\* Run All on a notebook that cells are added to
BatchNext ==
    \/ SetMode
    \/ AddNotebookCell
    \/ RunAllCells
    \/ CellResolve
    \/ RunAllNext

\* the same where every request ends (axios rejects after its timeout at the
\* latest) and every setTimeout fires
SpecRunAllLive ==
    /\ Init
    /\ [][BatchNext]_vars
    /\ WF_vars(CellResolve)
    /\ WF_vars(RunAllNext)

\* the editor surface with every stdout text up to MaxStdoutLen tokens, bare
\* and inside an envelope
DemuxNext ==
    \/ HandleRun
    \/ EditorResolveAnyStdout
    \/ EditorResolveEnveloped

SpecDemux == Init /\ [][DemuxNext]_vars

\* the Run button of the editor, counted among the user events
HandleRunEvent == HandleRunStart /\ UserEvent

\* the notebook surface next to an editor surface that runs its first file,
\* with at most MaxEvents user events on the two
SurfacesNext ==
    \/ NotebookNext
    \/ HandleRunEvent
    \/ EditorResolve

SpecSurfaces == Init /\ [][SurfacesNext]_vars

\* the three surfaces (editor, cell with input, cell without input) with
\* requests that fail
FailuresNext ==
    \/ SetMode
    \/ HandleRunEvent
    \/ EditorResolveFailure
    \/ UpdateNotebookCell
    \/ RunNotebookCell
    \/ CellResolveFailure

SpecFailures == Init /\ [][FailuresNext]_vars

\* the editor surface next to a notebook whose cells are added and run one
\* by one
ConcurrentNext ==
    \/ SetMode
    \/ HandleRun
    \/ EditorResolve
    \/ AddNotebookCell
    \/ RunNotebookCell
    \/ CellResolve

SpecConcurrent == Init /\ [][ConcurrentNext]_vars

\* the three surfaces with responses of every shape
PayloadNext ==
    \/ SetMode
    \/ HandleRunEvent
    \/ EditorResolvePayload
    \/ UpdateNotebookCell
    \/ RunNotebookCell
    \/ CellResolvePayload

SpecPayload == Init /\ [][PayloadNext]_vars

(***************************************************************************)
(* Properties.                                                             *)
(***************************************************************************)
\* the number of occurrences of the input-call token in a text
Occurrences(text, t) == Cardinality({i \in 1..Len(text) : text[i] = t})

\* a step of handler `name` (setMode is the one handler lastOp leaves out)
StepOf(name) == lastOp'.op = name /\ mode' = mode

\* C1: while the editor surface is Executing, an invocation of handleRun
\* sends no request and changes no state of the component, and at no time is
\* more than one editor request in flight.
C1_EditorSingleFlight ==
    /\ [][(StepOf("handleRun") /\ isExecuting)
             => UNCHANGED <<mode, editorVars, notebookVars>>]_vars
    /\ [](Len(editorReqs) <= 1)

\* handleRun has been invoked while the request was in flight (the output,
\* cleared by a file switch, would read 'Executing...' had it dispatched)
C1_Witness ==
    /\ lastOp.op = "handleRun"
    /\ isExecuting
    /\ Len(editorReqs) = 1
    /\ output = <<>>

\* C2: for every notebook cell at most one execution request is in flight
\* at a time.
C2_CellSingleFlight ==
    \A i, j \in 1..Len(cellReqs) : cellReqs[i].id = cellReqs[j].id => i = j

\* C3: once no request of the notebook is in flight, no cell is marked
\* executing and no cell shows 'Running...'.
C3_NoCellLeftExecuting ==
    cellReqs = <<>> =>
        \A k \in 1..Len(notebookCells) :
            /\ ~notebookCells[k].isExecuting
            /\ notebookCells[k].output # RUNNING_MSG

\* C4: when an editor request resolves, as a success, a structured failure,
\* a timeout or a transport failure, both flags become false and the output
\* no longer reads 'Executing...' but shows the result, an error text for
\* every failure; the flag is never set without a request in flight.
C4_EditorFlagCleared ==
    /\ [][StepOf("handleRunDone") =>
             /\ ~isExecuting'
             /\ ~waitingForInput'
             /\ output' # EXECUTING_MSG
             /\ (~lastOp'.res.success => Take(output', 1) = ERROR_PREFIX)]_vars
    /\ [](isExecuting => editorReqs # <<>>)

\* a request that was sent after input had been asked for ended in a
\* transport failure
C4_Witness ==
    /\ lastOp.op = "handleRunDone"
    /\ lastOp.res.kind = "throw"
    /\ lastOp.res.err = NetworkErr
    /\ ~isExecuting
    /\ userInput = <<"5">>

\* C5: on an idle editor surface whose active file holds N >= 1 input-call
\* tokens, with blank collected input, handleRun sends no request, does not
\* set isExecuting, sets waitingForInput and shows a message that states N.
C5_EditorInputGate ==
    [][(/\ StepOf("handleRun")
        /\ ~isExecuting
        /\ Occurrences(CurrentCode, INPUT_CALL) >= 1
        /\ \A i \in 1..Len(userInput) : IsSpace(userInput[i]))
          => /\ editorReqs' = editorReqs
             /\ ~isExecuting'
             /\ waitingForInput'
             /\ Includes(output', NumStr(Occurrences(CurrentCode, INPUT_CALL)))]_vars

\* handleRun has held back a source with two input calls whose collected
\* input was a blank
C5_Witness ==
    /\ lastOp.op = "handleRun"
    /\ waitingForInput
    /\ ~isExecuting
    /\ editorReqs = <<>>
    /\ userInput = <<SP>>
    /\ Occurrences(CurrentCode, INPUT_CALL) = 2
    /\ Includes(output, "2")

\* C6: no request of a cell whose source holds an input-call token is in
\* flight with an empty stdin.
C6_CellInputGate ==
    \A i \in 1..Len(cellReqs) :
        Occurrences(cellReqs[i].req.code, INPUT_CALL) >= 1
            => cellReqs[i].req.stdin # <<>>

\* C7: every editor request carries no session id, every notebook request
\* carries the notebook's session id, and that id never changes.
C7_SessionScoping ==
    /\ [](\A i \in 1..Len(editorReqs) : editorReqs[i].notebook_id = UNDEFINED)
    /\ [](\A i \in 1..Len(cellReqs) :
             /\ cellReqs[i].req.notebook_id = notebookId
             /\ cellReqs[i].req.notebook_id # UNDEFINED)
    /\ [][notebookId' = notebookId]_vars

\* an editor request and the request of an edited cell, sent by Run All
\* with the input typed into the prompt, are in flight together
C7_Witness ==
    /\ Len(editorReqs) = 1
    /\ \E i \in 1..Len(cellReqs) :
        /\ cellReqs[i].batch # 0
        /\ cellReqs[i].req.stdin = <<"5">>
        /\ cellReqs[i].req.notebook_id = notebookId

\* text with every span GraphMatches finds removed, from position i
RECURSIVE WithoutWrappers(_, _)
WithoutWrappers(s, i) ==
    IF i > Len(s) THEN <<>>
    ELSE IF IsGraphBegin(s[i]) /\ FirstIdx(s, GRAPH_END, i + 2) # 0
         THEN WithoutWrappers(s, FirstIdx(s, GRAPH_END, i + 2) + 1)
         ELSE <<s[i]>> \o WithoutWrappers(s, i + 1)

\* the payload of a wrapper match: what lies between its two markers
PayloadOf(m) == SubSeq(m, 2, Len(m) - 1)

\* a successful editor result has just been shown
ShownSuccess == lastOp.op = "handleRunDone" /\ lastOp.res.success

\* C8: for a successful result whose stdout holds wrappers, the displayed
\* text is stdout with every wrapper span removed, trimmed.
C8_SpanRemoval ==
    (ShownSuccess /\ GraphMatches(lastOp.res.stdout) # <<>>)
        => output = Trim(WithoutWrappers(lastOp.res.stdout, 1))

\* C9: the artifact list holds one entry per wrapper match, in order, each
\* the payload between the markers of its match.
C9_ArtifactExtraction ==
    ShownSuccess =>
        graphs = [k \in 1..Len(GraphMatches(lastOp.res.stdout)) |->
                     PayloadOf(GraphMatches(lastOp.res.stdout)[k])]

\* C10 as stated: a stdout without wrapper match is displayed unchanged,
\* with an empty artifact list.
C10_CleanTextIdentity ==
    (ShownSuccess /\ GraphMatches(lastOp.res.stdout) = <<>>)
        => (graphs = <<>> /\ output = lastOp.res.stdout)

\* C10 amended: a stdout without wrapper match is displayed unchanged,
\* whitespace included, with an empty artifact list, except that the empty
\* stdout is displayed as 'Success (no output)'.
C10_CleanTextIdentityAmended ==
    (ShownSuccess /\ GraphMatches(lastOp.res.stdout) = <<>>)
        => /\ graphs = <<>>
           /\ output = IF lastOp.res.stdout = <<>>
                       THEN SUCCESS_NO_OUTPUT ELSE lastOp.res.stdout

\* a stdout with leading and trailing whitespace and an unfinished wrapper
\* is displayed as it is
C10_Witness ==
    /\ ShownSuccess
    /\ lastOp.res.stdout = <<NL, "A", GRAPH_0, "A", NL>>
    /\ output = lastOp.res.stdout
    /\ graphs = <<>>

\* t occurs in s as a run of consecutive tokens
HasInfix(s, t) ==
    \E k \in 0..(Len(s) - Len(t)) : SubSeq(s, k + 1, k + Len(t)) = t

\* position i of stdout holds a begin marker with a payload after it and no
\* end marker anywhere after it
Unterminated(s, i) ==
    /\ i \in 1..(Len(s) - 1)
    /\ IsGraphBegin(s[i])
    /\ FirstIdx(s, GRAPH_END, i + 1) = 0

\* C11: a wrapper whose end marker is missing yields no artifact, raises no
\* error, and its text (up to trailing whitespace) stays in the displayed
\* output.
C11_MalformedNoOp ==
    ShownSuccess =>
        \A i \in 1..Len(lastOp.res.stdout) :
            Unterminated(lastOp.res.stdout, i)
                => /\ Len(graphs) <= Len(GraphMatches(Take(lastOp.res.stdout, i - 1)))
                   /\ ~HasInfix(output, ERROR_PREFIX)
                   /\ HasInfix(output,
                               TrimRight(Drop(lastOp.res.stdout, i - 1)))

\* the ids of the code cells of `cells`, in their order
RECURSIVE CodeIds(_)
CodeIds(cells) ==
    IF cells = <<>> THEN <<>>
    ELSE (IF Head(cells).type = "code" THEN <<Head(cells).id>> ELSE <<>>)
             \o CodeIds(Tail(cells))

LogIds(log) == [k \in 1..Len(log) |-> log[k].id]

\* this step ends the loop of runAllCells invocation b
BatchEnds(b) ==
    /\ StepOf("runAllCells") \/ StepOf("runAllNext")
    /\ lastOp'.id = b
    /\ ~batches'[b].active

\* the notebookCells the closure of invocation b holds, read before a step
\* of that invocation
BatchSnap(b) == IF batches[b].active THEN batches[b].snap ELSE notebookCells

\* no request sent by runAllCells is for a markdown cell
BatchRequestsAreCode ==
    \A i \in 1..Len(cellReqs) :
        cellReqs[i].batch # 0 =>
            cellReqs[i].snap[FindCell(cellReqs[i].snap, cellReqs[i].id)].type = "code"

\* the calls invocation b has made so far are the first code cells, in order
BatchInOrder ==
    \A b \in 1..MaxBatches :
        batches[b].active =>
            /\ Len(batches[b].log) <= Len(CodeIds(batches[b].snap))
            /\ LogIds(batches[b].log)
                   = Take(CodeIds(batches[b].snap), Len(batches[b].log))

\* C12 as stated: when one Run All ends it has sent exactly one request per
\* code cell of the notebook, in the cells' order, and none for a markdown
\* cell.
C12_RunAllCoverage ==
    /\ [][\A b \in 1..MaxBatches :
             BatchEnds(b) =>
                 /\ LogIds(batches'[b].log) = CodeIds(BatchSnap(b))
                 /\ \A k \in 1..Len(batches'[b].log) : batches'[b].log[k].sent]_vars
    /\ [](BatchRequestsAreCode /\ BatchInOrder)

\* C12 amended: when one Run All ends it has called runNotebookCell exactly
\* once per code cell of the notebook, in the cells' order, and never for a
\* markdown cell; each call has sent one request, except for a cell with an
\* input call, whose call may send none (its prompt cancelled).
C12_RunAllCoverageAmended ==
    /\ [][\A b \in 1..MaxBatches :
             BatchEnds(b) =>
                 /\ LogIds(batches'[b].log) = CodeIds(BatchSnap(b))
                 /\ \A k \in 1..Len(batches'[b].log) :
                        ~batches'[b].log[k].sent =>
                            CountInput(BatchSnap(b)[FindCell(BatchSnap(b),
                                batches'[b].log[k].id)].content) > 0]_vars
    /\ [](BatchRequestsAreCode /\ BatchInOrder)

\* a Run All over a markdown cell and two code cells has ended: the first
\* code cell's prompt was cancelled, the second cell's request was sent
C12_Witness ==
    \E b \in 1..MaxBatches :
        /\ lastOp = Op("runAllNext", b, NoOutcome)
        /\ ~batches[b].active
        /\ Len(batches[b].log) = 2
        /\ ~batches[b].log[1].sent
        /\ batches[b].log[2].sent
        /\ Len(notebookCells) = 3
        /\ cellReqs = <<>>

\* C13: at any time at most one request sent by Run All is in flight.
C13_RunAllSequential ==
    Cardinality({i \in 1..Len(cellReqs) : cellReqs[i].batch # 0}) <= 1

\* a step of runAllCells invocation b: its loop goes on after the delay, or
\* the request it awaits resolves
BatchStep(b) ==
    \/ StepOf("runAllNext") /\ lastOp'.id = b
    \/ /\ StepOf("runNotebookCellDone")
       /\ batches[b].phase = "await"
       /\ batches'[b].phase = "delay"

\* the cells invocation b executed before the cell this step is about
EarlierIds(b) ==
    {batches[b].log[k].id :
        k \in {j \in 1..Len(batches[b].log) : batches[b].log[j].sent}}
        \ (IF StepOf("runNotebookCellDone") THEN {lastOp'.id} ELSE {})

\* C14: while Run All goes on to later cells, every cell it ran earlier
\* keeps the output its own execution gave it.
C14_RunAllKeepsResults ==
    [][\A b \in 1..MaxBatches :
          BatchStep(b) =>
              \A id \in EarlierIds(b) :
                  (FindCell(notebookCells, id) # 0 /\ FindCell(notebookCells', id) # 0)
                      => notebookCells'[FindCell(notebookCells', id)].output
                             = notebookCells[FindCell(notebookCells, id)].output]_vars

\* this step is the end of a request that invocation b sent
BatchRequestEnds(b) ==
    /\ StepOf("runNotebookCellDone")
    /\ \E i \in 1..Len(cellReqs) :
        /\ cellReqs[i].batch = b
        /\ cellReqs' = Take(cellReqs, i - 1) \o Drop(cellReqs, i)

\* the request that invocation b awaited has just ended in a failure
BatchCellFailed(b) ==
    /\ batches[b].active
    /\ batches[b].phase = "delay"
    /\ lastOp.op = "runNotebookCellDone"
    /\ lastOp.id = batches[b].snap[batches[b].idx].id
    /\ ~lastOp.res.success

\* C15: when a request of Run All ends in a structured failure, a timeout or
\* a transport failure, the loop is still alive and goes on to its delay; it
\* ends only when every code cell has had its call; and it does end.
C15_FailureDoesNotHalt ==
    /\ [][\A b \in 1..MaxBatches :
             (BatchRequestEnds(b) /\ ~lastOp'.res.success)
                 => /\ batches'[b].active
                    /\ batches'[b].phase = "delay"
                    /\ batches'[b].log = batches[b].log]_vars
    /\ [][\A b \in 1..MaxBatches :
             (batches[b].active /\ ~batches'[b].active)
                 => LogIds(batches'[b].log) = CodeIds(batches[b].snap)]_vars
    /\ \A b \in 1..MaxBatches : BatchCellFailed(b) ~> ~batches[b].active

\* the first of two code cells of a Run All has ended in a transport
\* failure and the loop waits to go on to the second
C15_Witness ==
    \E b \in 1..MaxBatches :
        /\ BatchCellFailed(b)
        /\ lastOp.res.kind = "throw"
        /\ Len(batches[b].log) = 1
        /\ Len(CodeIds(batches[b].snap)) = 2

\* the kind of failure an outcome is
FailureKind(o) ==
    IF o.kind = "response" THEN (IF o.success THEN "none" ELSE "remote")
    ELSE IF o.err \in TimeoutErrors THEN "timeout"
    ELSE "transport"

\* C16: on the editor, on a cell run with input and on a cell run without
\* input, the text shown for a failure differs from the text the same
\* surface shows for any failure of another kind.
C16_FailureKindsDistinct ==
    /\ lastOp.op = "handleRunDone" =>
           \A o \in FailureOutcomes :
               FailureKind(o) # FailureKind(lastOp.res)
                   => EditorResultOutput(o) # output
    /\ (lastOp.op = "runNotebookCellDone" /\ FindCell(notebookCells, lastOp.id) # 0) =>
           LET cell == notebookCells[FindCell(notebookCells, lastOp.id)]
           IN  \A o \in FailureOutcomes :
                   FailureKind(o) # FailureKind(lastOp.res)
                       => CellResultOutput([req |-> [code |-> cell.content]], o)
                              # cell.output

\* C17: when the active file holds no input-call token, handleRun on an
\* editor that is not executing sends exactly one request, for that source,
\* sets isExecuting and leaves waitingForInput false, whatever the collected
\* input is.
C17_ZeroInputDispatch ==
    [][(/\ StepOf("handleRun")
        /\ ~isExecuting
        /\ Occurrences(CurrentCode, INPUT_CALL) = 0)
          => /\ Len(editorReqs') = Len(editorReqs) + 1
             /\ editorReqs'[Len(editorReqs')].code = CurrentCode
             /\ editorReqs'[Len(editorReqs')].stdin = userInput
             /\ isExecuting'
             /\ ~waitingForInput']_vars

\* a source without input call has been dispatched while input collected
\* for another source was still in the textarea
C17_Witness ==
    /\ lastOp.op = "handleRun"
    /\ isExecuting
    /\ ~waitingForInput
    /\ Len(editorReqs) = 1
    /\ Occurrences(editorReqs[1].code, INPUT_CALL) = 0
    /\ editorReqs[1].stdin = <<"5">>
    /\ output = EXECUTING_MSG

\* C18: in WaitingForInput the editor is not executing, and handleRun with
\* a collected input that is not blank sets isExecuting, clears
\* waitingForInput and sends exactly one request, whose stdin is the
\* collected text, however many values the text holds.
C18_InputUnblocksDispatch ==
    /\ [](waitingForInput => ~isExecuting)
    /\ [][(/\ StepOf("handleRun")
           /\ waitingForInput
           /\ \E i \in 1..Len(userInput) : ~IsSpace(userInput[i]))
             => /\ isExecuting'
                /\ ~waitingForInput'
                /\ Len(editorReqs') = Len(editorReqs) + 1
                /\ editorReqs'[Len(editorReqs')].stdin = userInput
                /\ editorReqs'[Len(editorReqs')].code = CurrentCode]_vars

\* a source with two input calls, held back for input, has been dispatched
\* with a single value as its stdin
C18_Witness ==
    /\ lastOp.op = "handleRun"
    /\ isExecuting
    /\ ~waitingForInput
    /\ Len(editorReqs) = 1
    /\ Occurrences(editorReqs[1].code, INPUT_CALL) = 2
    /\ editorReqs[1].stdin = <<"5">>

\* C19: when an editor request has ended, in whatever way, waitingForInput
\* is false and the collected input is empty.
C19_InputDestroyedByDispatch ==
    [][StepOf("handleRunDone") => (~waitingForInput' /\ userInput' = <<>>)]_vars

\* clearOutput in WaitingForInput discards the pending input, leaves the
\* editor idle and sends nothing
ClearOutputCancels ==
    [][(StepOf("clearOutput") /\ waitingForInput)
          => /\ ~waitingForInput'
             /\ userInput' = <<>>
             /\ ~isExecuting'
             /\ editorReqs' = editorReqs
             /\ cellReqs' = cellReqs]_vars

\* this step is a call of runNotebookCell(id) whose prompt is cancelled: by
\* the cell's button, or by a Run All that goes straight on to its delay
CellPromptCancelled(id) ==
    \/ /\ StepOf("runNotebookCell")
       /\ lastOp'.id = id
       /\ cellReqs' = cellReqs
    \/ /\ StepOf("runAllCells") \/ StepOf("runAllNext")
       /\ batches'[lastOp'.id].active
       /\ batches'[lastOp'.id].phase = "delay"
       /\ batches'[lastOp'.id].snap[batches'[lastOp'.id].idx].id = id

\* C20: clearOutput in WaitingForInput discards the pending state and sends
\* nothing; a call of runNotebookCell whose prompt is cancelled sends no
\* request and leaves the cell not marked executing.
C20_CancelDiscards ==
    /\ ClearOutputCancels
    /\ [][\A id \in UsedIds :
             CellPromptCancelled(id)
                 => /\ cellReqs' = cellReqs
                    /\ FindCell(notebookCells', id) # 0
                    /\ ~notebookCells'[FindCell(notebookCells', id)].isExecuting
                    /\ notebookCells'[FindCell(notebookCells', id)].output
                           = CANCELLED_MSG]_vars

\* C21: when an editor run has ended, the artifact list holds nothing but
\* payloads of that run's stdout, at most one per wrapper, and is empty when
\* the run failed or its stdout held no wrapper; the list is empty from
\* the start of a run to its end.
C21_ArtifactsNeverAccumulate ==
    /\ lastOp.op = "handleRunDone" =>
           IF lastOp.res.success
           THEN /\ Len(graphs) <= Len(GraphMatches(lastOp.res.stdout))
                /\ \A k \in 1..Len(graphs) : HasInfix(lastOp.res.stdout, graphs[k])
           ELSE graphs = <<>>
    /\ isExecuting => graphs = <<>>

\* a run whose stdout held two wrappers has ended and the list holds their
\* two payloads
C21_Witness ==
    /\ lastOp.op = "handleRunDone"
    /\ lastOp.res.success
    /\ Len(GraphMatches(lastOp.res.stdout)) = 2
    /\ graphs = <<<<"A">>, <<"A">>>>
    /\ ~isExecuting

\* C22: when the request of a cell ends, the notebook keeps its cells, their
\* order, types and contents, and every other cell keeps its output and flag.
C22_CellCompletionFrame ==
    [][StepOf("runNotebookCellDone") =>
          /\ Len(notebookCells') = Len(notebookCells)
          /\ \A k \in 1..Len(notebookCells) :
                 IF notebookCells[k].id = lastOp'.id
                 THEN notebookCells'[k] =
                          [notebookCells[k] EXCEPT
                              !.output = notebookCells'[k].output,
                              !.isExecuting = notebookCells'[k].isExecuting]
                 ELSE notebookCells'[k] = notebookCells[k]]_vars

\* C23: a code cell that is not marked executing can be run whatever the
\* editor and the other cells are doing, and its run sends a request; the
\* editor, when it is not executing, sends its request whatever the cells
\* are doing.
C23_NoGlobalLock ==
    /\ [](( /\ mode = "notebook"
            /\ events < MaxEvents
            /\ Len(cellReqs) < MaxCellReqs
            /\ \E k \in 1..Len(notebookCells) :
                   notebookCells[k].type = "code" /\ ~notebookCells[k].isExecuting)
              => ENABLED RunNotebookCell)
    /\ [][(/\ StepOf("runNotebookCell")
           /\ CountInput(notebookCells[FindCell(notebookCells, lastOp'.id)].content) = 0)
             => Len(cellReqs') = Len(cellReqs) + 1]_vars
    /\ [][(StepOf("handleRun") /\ ~isExecuting /\ CountInput(CurrentCode) = 0)
             => Len(editorReqs') = Len(editorReqs) + 1]_vars

\* the editor and two different cells have a request in flight at once
C23_Witness ==
    /\ isExecuting
    /\ Len(editorReqs) = 1
    /\ Len(cellReqs) = 2
    /\ cellReqs[1].id # cellReqs[2].id
    /\ \A i \in 1..2 : cellReqs[i].batch = 0

\* t can be had from s by leaving tokens out
RECURSIVE IsSubseq(_, _)
IsSubseq(t, s) ==
    IF t = <<>> THEN TRUE
    ELSE IF s = <<>> THEN FALSE
    ELSE IF Head(t) = Head(s) THEN IsSubseq(Tail(t), Tail(s))
    ELSE IsSubseq(t, Tail(s))

\* text shown for a successful response: taken from stdout alone
FromStdoutOnly(shown, o) ==
    IF o.stdout = <<>> THEN shown \in {<<>>, SUCCESS_NO_OUTPUT}
    ELSE IsSubseq(shown, o.stdout)

\* text shown for a failed response: a prefix, then stderr as it is
StderrVerbatim(shown, o) ==
    /\ Len(shown) = Len(o.stderr) + 1
    /\ Drop(shown, 1) = o.stderr
    /\ shown[1] \in {ERROR_PREFIX[1], CELL_ERROR_PREFIX[1]}

\* C24: on the editor and on a cell, the text shown for a response with
\* success = true is taken from stdout alone, and for success = false it is
\* an error prefix followed by stderr as it is, with nothing of stdout.
C24_PayloadSelection ==
    /\ (lastOp.op = "handleRunDone" /\ lastOp.res.kind = "response") =>
           IF lastOp.res.success THEN FromStdoutOnly(output, lastOp.res)
           ELSE StderrVerbatim(output, lastOp.res)
    /\ ( /\ lastOp.op = "runNotebookCellDone"
         /\ lastOp.res.kind = "response"
         /\ FindCell(notebookCells, lastOp.id) # 0) =>
           LET cell == notebookCells[FindCell(notebookCells, lastOp.id)]
           IN  IF lastOp.res.success THEN FromStdoutOnly(cell.output, lastOp.res)
               ELSE StderrVerbatim(cell.output, lastOp.res)

\* a cell run with input has failed with both texts set and shows the
\* stderr alone
C24_Witness ==
    /\ lastOp.op = "runNotebookCellDone"
    /\ ~lastOp.res.success
    /\ lastOp.res.stdout = <<"A">>
    /\ lastOp.res.stderr = <<"Traceback">>
    /\ \E k \in 1..Len(notebookCells) :
        /\ notebookCells[k].id = lastOp.id
        /\ CountInput(notebookCells[k].content) > 0
        /\ notebookCells[k].output = CELL_ERROR_PREFIX \o <<"Traceback">>

\* C25: every Run All invocation ends, and when it ends it has called
\* runNotebookCell for each code cell of the notebook as it was when Run All
\* was invoked, in order.
C25_RunAllTerminates ==
    /\ \A b \in 1..MaxBatches : batches[b].active ~> ~batches[b].active
    /\ [][\A b \in 1..MaxBatches :
             BatchEnds(b) => LogIds(batches'[b].log) = CodeIds(BatchSnap(b))]_vars

\* a Run All over two code cells has ended after two requests
C25_Witness ==
    \E b \in 1..MaxBatches :
        /\ lastOp = Op("runAllNext", b, NoOutcome)
        /\ ~batches[b].active
        /\ Len(batches[b].log) = 2
        /\ batches[b].log[1].sent
        /\ batches[b].log[2].sent
        /\ cellReqs = <<>>

\* C26: when a notebook cell's run succeeds with well-formed artifact wrappers
\* in its stdout, the output the cell displays holds no wrapper span.
C26_CellOutputDemultiplexed ==
    (/\ lastOp.op = "runNotebookCellDone"
     /\ lastOp.res.success
     /\ GraphMatches(lastOp.res.stdout) # <<>>)
    => \A k \in 1..Len(notebookCells) :
           notebookCells[k].id = lastOp.id
           => GraphMatches(notebookCells[k].output) = <<>>

\* C27: the editor is never executing and waiting for input at once, and it
\* starts waiting for input only in a handleRun call made while it is not
\* executing.
C27_EditorExclusion ==
    /\ [](~(isExecuting /\ waitingForInput))
    /\ [][(~waitingForInput /\ waitingForInput')
            => StepOf("handleRun") /\ ~isExecuting /\ ~isExecuting']_vars

\* handleRun on an idle editor with one input call and no input typed has
\* put the editor in WaitingForInput
C27_Witness ==
    /\ waitingForInput
    /\ ~isExecuting
    /\ editorReqs = <<>>
    /\ lastOp.op = "handleRun"
    /\ userInput = <<>>
    /\ Occurrences(CurrentCode, INPUT_CALL) = 1
    /\ output = NeedsInputMsg(1)

\* the text of stdout outside every well-formed wrapper, the two envelope
\* markers left out
OrdinaryText(s) ==
    SelectSeq(WithoutWrappers(s, 1),
              LAMBDA t : t \notin {GRAPHS_START, GRAPHS_END})

\* C28: the text of a successful stdout outside the wrappers appears in the
\* displayed output, in order, up to whitespace at its two ends.
C28_OrdinaryOutputPreserved ==
    ShownSuccess => IsSubseq(Trim(OrdinaryText(lastOp.res.stdout)), output)

\* C29: whenever the artifact list is not empty the current index lies in
\* 0 .. length - 1, and every step that replaces the list leaves the index
\* at 0.
C29_CursorInRange ==
    /\ [](graphs # <<>> => currentGraphIndex \in 0..(Len(graphs) - 1))
    /\ [][graphs' # graphs => currentGraphIndex' = 0]_vars

\* the next button has moved the cursor to the last of two artifacts
C29_Witness ==
    /\ lastOp.op = "nextGraph"
    /\ Len(graphs) = 2
    /\ currentGraphIndex = 1
    /\ ~isExecuting

====
